---- MODULE Spec2Model ----
(***************************************************************************)
(* A model of the brainfuck interpreter of src/src/lib.rs: the loader      *)
(* BfInterpreter::new (source text -> instructions + jump_memo) and the    *)
(* machine (step, execute) over a byte tape and two byte streams.          *)
(*                                                                         *)
(* Rust vectors are modelled as sequences; Rust indices are 0-based, so    *)
(* v[i] of the source is At(v, i) here.  An index out of bounds, and an    *)
(* arithmetic overflow in a build with overflow checks, is a panic.        *)
(***************************************************************************)
EXTENDS Integers, Sequences, FiniteSets

VARIABLES
    source,               \* the text handed to new, a sequence of characters
    scanned,              \* how many characters the for loop of new has consumed
    loop_stack,           \* new: positions of the pending LoopStart instructions
    new_result,           \* new: "Scanning" while in the loop, then its outcome
    instructions,         \* BfInterpreter.instructions
    jump_memo,            \* BfInterpreter.jump_memo
    instruction_pointer,  \* BfInterpreter.instruction_pointer
    tape,                 \* BfInterpreter.tape
    tape_pointer,         \* BfInterpreter.tape_pointer
    input,                \* the bytes the input stream holds
    consumed,             \* how many of them self.input.consume has taken
    input_end,            \* what fill_buf reports after the last byte
    output,               \* the bytes the output stream has accepted
    writer,               \* the kind of the output stream
    overflow_checks,      \* the build: TRUE panics on u8 overflow, FALSE wraps
    steps,                \* number of calls of step so far
    failed_steps,         \* number of those that returned Err
    step_result,          \* outcome of the latest call of step
    execute_result        \* outcome of execute, "NotCalled" before

vars == <<source, scanned, loop_stack, new_result, instructions, jump_memo,
          instruction_pointer, tape, tape_pointer, input, consumed, input_end,
          output, writer, overflow_checks, steps, failed_steps, step_result,
          execute_result>>

(***************************************************************************)
(* Bounds of the model.                                                    *)
(***************************************************************************)
MaxSrc == 5      \* longest source text the loader is run on
MaxProg == 4     \* longest source text of a program that is executed
MaxIn == 1       \* longest input stream
MaxSteps == 8    \* calls of step per run
MaxEcho == 3     \* most nonzero bytes fed to the echo and reversal programs
MaxN == 23       \* largest byte fed to the sum-of-N program

(***************************************************************************)
(* Vectors and bytes.                                                      *)
(***************************************************************************)
At(v, i) == v[i + 1]

InBounds(v, i) == i >= 0 /\ i < Len(v)

SetAt(v, i, x) == [v EXCEPT ![i + 1] = x]

Resize(v, n, x) ==
    IF n <= Len(v) THEN SubSeq(v, 1, n)
    ELSE v \o [k \in 1..(n - Len(v)) |-> x]

U8 == 256

ByteSample == {0, 255}

Chars == {">", "<", "+", "-", ",", ".", "[", "]"}

CommentChar == "x"

InstructionOf(code) ==
    CASE code = ">" -> "GoRight"
      [] code = "<" -> "GoLeft"
      [] code = "+" -> "Increment"
      [] code = "-" -> "Decrement"
      [] code = "," -> "GetInput"
      [] code = "." -> "PutOutput"
      [] code = "[" -> "LoopStart"
      [] code = "]" -> "LoopEnd"

SeqsUpTo(S, n) == UNION {[1..k -> S] : k \in 0..n}

Range(seq) == {seq[k] : k \in 1..Len(seq)}

(***************************************************************************)
(* BfInterpreter::new.  A loader state is the locals of new; ScanChar is   *)
(* one iteration of its for loop.                                          *)
(***************************************************************************)
Pop(stack) == SubSeq(stack, 1, Len(stack) - 1)

\* ScanLoopEnd with the back edge forgotten: only beginning -> ending is recorded
ScanLoopEndOneWay(l) ==
    LET ending == Len(l.instructions) IN
    IF l.loop_stack = <<>>
    THEN [l EXCEPT !.result = "LoopNotStarted"]
    ELSE
      LET beginning == l.loop_stack[Len(l.loop_stack)]
          memo1 == IF Len(l.jump_memo) < ending
                   THEN Resize(l.jump_memo, ending + 1, 0)
                   ELSE l.jump_memo
      IN
      IF ~InBounds(memo1, ending)
      THEN [l EXCEPT !.loop_stack = Pop(l.loop_stack), !.result = "Panic"]
      ELSE [l EXCEPT !.loop_stack = Pop(l.loop_stack),
                     !.jump_memo = SetAt(memo1, beginning, ending),
                     !.instructions = Append(l.instructions, "LoopEnd")]

ScanLoopEnd(l) ==
    LET ending == Len(l.instructions) IN
    IF l.loop_stack = <<>>
    THEN [l EXCEPT !.result = "LoopNotStarted"]
    ELSE
      LET beginning == l.loop_stack[Len(l.loop_stack)]
          popped == Pop(l.loop_stack)
          memo1 == IF Len(l.jump_memo) < ending
                   THEN Resize(l.jump_memo, ending + 1, 0)
                   ELSE l.jump_memo
      IN
      IF ~InBounds(memo1, beginning)
      THEN [l EXCEPT !.loop_stack = popped, !.jump_memo = memo1, !.result = "Panic"]
      ELSE
        LET memo2 == SetAt(memo1, beginning, ending) IN
        IF ~InBounds(memo2, ending)
        THEN [l EXCEPT !.loop_stack = popped, !.jump_memo = memo2, !.result = "Panic"]
        ELSE [l EXCEPT !.loop_stack = popped,
                       !.jump_memo = SetAt(memo2, ending, beginning),
                       !.instructions = Append(l.instructions, "LoopEnd")]

ScanChar(l, code) ==
    CASE code = "[" ->
           [l EXCEPT !.loop_stack = Append(l.loop_stack, Len(l.instructions)),
                     !.instructions = Append(l.instructions, "LoopStart")]
      [] code = "]" -> ScanLoopEnd(l)
      [] code \in Chars \ {"[", "]"} ->
           [l EXCEPT !.instructions = Append(l.instructions, InstructionOf(code))]
      [] OTHER -> l

FinishScan(l) ==
    IF l.loop_stack # <<>> THEN [l EXCEPT !.result = "LoopNotEnded"]
    ELSE [l EXCEPT !.result = "Ok"]

NewLocals == [instructions |-> <<>>, loop_stack |-> <<>>, jump_memo |-> <<>>,
              result |-> "Scanning"]

RECURSIVE ScanFrom(_, _, _)
ScanFrom(l, src, k) ==
    IF l.result # "Scanning" THEN l
    ELSE IF k > Len(src) THEN FinishScan(l)
    ELSE ScanFrom(ScanChar(l, src[k]), src, k + 1)

new(src) == ScanFrom(NewLocals, src, 1)

(***************************************************************************)
(* The loader as a state machine: one action per loop iteration, one for   *)
(* the code after the loop.                                                *)
(***************************************************************************)
Locals == [instructions |-> instructions, loop_stack |-> loop_stack,
           jump_memo |-> jump_memo, result |-> new_result]

NoStreams ==
    /\ input = <<>> /\ consumed = 0 /\ input_end = "Eof"
    /\ output = <<>> /\ writer = "Vec" /\ overflow_checks = FALSE

Fresh ==
    /\ instruction_pointer = 0 /\ tape_pointer = 0
    /\ steps = 0 /\ failed_steps = 0
    /\ step_result = "None" /\ execute_result = "NotCalled"

InitLoad ==
    /\ source \in SeqsUpTo(Chars \cup {CommentChar}, MaxSrc)
    /\ scanned = 0
    /\ loop_stack = <<>> /\ instructions = <<>> /\ jump_memo = <<>>
    /\ new_result = "Scanning"
    /\ tape = <<>>
    /\ Fresh /\ NoStreams

machineVars == <<instruction_pointer, tape_pointer, input, consumed, input_end,
                 output, writer, overflow_checks, steps, failed_steps,
                 step_result, execute_result>>

Scan ==
    /\ new_result = "Scanning"
    /\ scanned < Len(source)
    /\ LET l == ScanChar(Locals, source[scanned + 1]) IN
         /\ instructions' = l.instructions
         /\ loop_stack' = l.loop_stack
         /\ jump_memo' = l.jump_memo
         /\ new_result' = l.result
    /\ scanned' = scanned + 1
    /\ UNCHANGED <<source, tape>>
    /\ UNCHANGED machineVars

Finish ==
    /\ new_result = "Scanning"
    /\ scanned = Len(source)
    /\ new_result' = FinishScan(Locals).result
    /\ tape' = IF new_result' = "Ok" THEN <<0>> ELSE tape
    /\ UNCHANGED <<source, scanned, loop_stack, instructions, jump_memo>>
    /\ UNCHANGED machineVars

NextLoad == Scan \/ Finish

SpecLoad == InitLoad /\ [][NextLoad]_vars

(***************************************************************************)
(* Properties of the loader, checked under SpecLoad.                       *)
(***************************************************************************)
Count(seq, k, x) == Cardinality({j \in 1..k : seq[j] = x})

\* no prefix closes more than it opens
NeverNegative(seq, open, close) ==
    \A k \in 1..Len(seq) : Count(seq, k, close) <= Count(seq, k, open)

Balanced(seq, open, close) ==
    /\ NeverNegative(seq, open, close)
    /\ Count(seq, Len(seq), close) = Count(seq, Len(seq), open)

IsChar(c) == c \in Chars

\* the recognized characters of a source, in order, as instructions
Expected(src) ==
    LET rec == SelectSeq(src, IsChar) IN
    [k \in 1..Len(rec) |-> InstructionOf(rec[k])]

Returned == new_result # "Scanning"

\* C1: new succeeds on every source with balanced brackets, and the
\* instructions it builds are the recognized characters of the source, in
\* order (so as many as the source has recognized characters).
C1_BalancedSourceLoads ==
    (Returned /\ Balanced(source, "[", "]"))
        => (new_result = "Ok" /\ instructions = Expected(source))

\* positions s < e of a LoopStart and the LoopEnd that the stack discipline
\* pairs with it: what lies between them is balanced
Matched(ins, s, e) ==
    /\ s < e
    /\ At(ins, s) = "LoopStart"
    /\ At(ins, e) = "LoopEnd"
    /\ Balanced(SubSeq(ins, s + 2, e), "LoopStart", "LoopEnd")

\* C2: in every program that new returns, each LoopStart and each LoopEnd
\* index has an in-bounds entry of jump_memo, the entries are mutual
\* inverses, and each pair (s, e) matched by the stack discipline has
\* jump_memo[s] = e and jump_memo[e] = s.
C2_JumpTable ==
    new_result = "Ok" =>
        /\ \A i \in 0..(Len(instructions) - 1) :
              At(instructions, i) \in {"LoopStart", "LoopEnd"} =>
                  /\ InBounds(jump_memo, i)
                  /\ InBounds(instructions, At(jump_memo, i))
                  /\ InBounds(jump_memo, At(jump_memo, i))
                  /\ At(jump_memo, At(jump_memo, i)) = i
                  /\ At(instructions, At(jump_memo, i)) # At(instructions, i)
        /\ \A s, e \in 0..(Len(instructions) - 1) :
              Matched(instructions, s, e) =>
                  At(jump_memo, s) = e /\ At(jump_memo, e) = s

\* a loaded program with a loop nested in a loop
C2_NestedLoaded ==
    /\ scanned > 0
    /\ new_result = "Ok"
    /\ \E s, e \in 0..(Len(instructions) - 1) :
          /\ Matched(instructions, s, e)
          /\ \E t \in (s + 1)..(e - 1) : At(instructions, t) = "LoopStart"

\* C3: on every source with an unmatched ']' new returns LoopNotStarted.
C3_UnmatchedCloseRejected ==
    (Returned /\ ~NeverNegative(source, "[", "]"))
        => new_result = "LoopNotStarted"

\* C4: on every source with an unmatched '[' new returns LoopNotEnded
\* (stated for the sources without an unmatched ']', which C3 speaks of).
C4_UnmatchedOpenRejected ==
    (/\ Returned
     /\ NeverNegative(source, "[", "]")
     /\ Count(source, Len(source), "[") > Count(source, Len(source), "]"))
        => new_result = "LoopNotEnded"

(***************************************************************************)
(* The machine.  A machine value is the mutable part of a BfInterpreter:   *)
(* its pointers, its tape and the position of its two streams.  The        *)
(* program (instructions, jump_memo), the bytes of the input stream, the   *)
(* kind of the two streams and the build do not change during a run.       *)
(***************************************************************************)
Self == [instruction_pointer |-> instruction_pointer, tape |-> tape,
         tape_pointer |-> tape_pointer, consumed |-> consumed,
         output |-> output]

Done(self, res) == [self |-> self, result |-> res]

is_end(self) == self.instruction_pointer >= Len(instructions)

head_value(self) == At(self.tape, self.tape_pointer)

\* the tail of step: self.instruction_pointer += 1; Ok(())
Advance(self) ==
    Done([self EXCEPT !.instruction_pointer = self.instruction_pointer + 1], "Ok")

\* GoRight that grows the tape on every move
GoRightAlwaysPush(self) ==
    Advance([self EXCEPT !.tape_pointer = self.tape_pointer + 1,
                         !.tape = Append(self.tape, 0)])

\* GoRight that never grows the tape
GoRightNoGrow(self) ==
    Advance([self EXCEPT !.tape_pointer = self.tape_pointer + 1])

GoRight(self) ==
    LET moved == [self EXCEPT !.tape_pointer = self.tape_pointer + 1] IN
    IF moved.tape_pointer >= Len(moved.tape)
    THEN Advance([moved EXCEPT !.tape = Append(moved.tape, 0)])
    ELSE Advance(moved)

\* GoLeft that stays on cell 0 instead of failing
GoLeftSaturating(self) ==
    IF self.tape_pointer = 0 THEN Advance(self)
    ELSE Advance([self EXCEPT !.tape_pointer = self.tape_pointer - 1])

\* GoLeft that zeroes the cell it leaves
GoLeftClearing(self) ==
    IF self.tape_pointer = 0 THEN Done(self, "SeekOverLeftmost")
    ELSE Advance([self EXCEPT !.tape_pointer = self.tape_pointer - 1,
                              !.tape = SetAt(self.tape, self.tape_pointer, 0)])

GoLeft(self) ==
    IF self.tape_pointer = 0 THEN Done(self, "SeekOverLeftmost")
    ELSE Advance([self EXCEPT !.tape_pointer = self.tape_pointer - 1])

\* u8 += 1: past 255 a build with overflow checks panics, the others wrap
Increment(self) ==
    IF ~InBounds(self.tape, self.tape_pointer) THEN Done(self, "Panic")
    ELSE IF head_value(self) + 1 >= U8 /\ overflow_checks THEN Done(self, "Panic")
    ELSE Advance([self EXCEPT
                    !.tape = SetAt(self.tape, self.tape_pointer,
                                   (head_value(self) + 1) % U8)])

\* u8 -= 1: below 0 a build with overflow checks panics, the others wrap
Decrement(self) ==
    IF ~InBounds(self.tape, self.tape_pointer) THEN Done(self, "Panic")
    ELSE IF head_value(self) - 1 < 0 /\ overflow_checks THEN Done(self, "Panic")
    ELSE Advance([self EXCEPT
                    !.tape = SetAt(self.tape, self.tape_pointer,
                                   (head_value(self) - 1) % U8)])

\* self.input.fill_buf(): the unread bytes, or an I/O error
fill_buf(self) ==
    IF self.consumed < Len(input)
    THEN [err |-> FALSE, buf |-> SubSeq(input, self.consumed + 1, Len(input))]
    ELSE [err |-> input_end = "Fault", buf |-> <<>>]

\* GetInput that stores 0 at the end of the input instead of failing
GetInputDefaultZero(self) ==
    LET r == fill_buf(self) IN
    IF r.err THEN Done(self, "ReadError")
    ELSE IF ~InBounds(self.tape, self.tape_pointer) THEN Done(self, "Panic")
    ELSE IF r.buf = <<>>
    THEN Advance([self EXCEPT !.tape = SetAt(self.tape, self.tape_pointer, 0)])
    ELSE Advance([self EXCEPT
                    !.tape = SetAt(self.tape, self.tape_pointer, At(r.buf, 0)),
                    !.consumed = self.consumed + 1])

GetInput(self) ==
    LET r == fill_buf(self) IN
    IF r.err THEN Done(self, "ReadError")
    ELSE IF r.buf = <<>> THEN Done(self, "LackOfInput")
    ELSE IF ~InBounds(self.tape, self.tape_pointer) THEN Done(self, "Panic")
    ELSE Advance([self EXCEPT
                    !.tape = SetAt(self.tape, self.tape_pointer, At(r.buf, 0)),
                    !.consumed = self.consumed + 1])

\* write that puts the new bytes in front of the old ones
writePrepend(out, buf) ==
    CASE writer = "Vec" -> [err |-> FALSE, n |-> Len(buf), out |-> buf \o out]
      [] writer = "Full" -> [err |-> FALSE, n |-> 0, out |-> out]
      [] writer = "Broken" -> [err |-> TRUE, n |-> 0, out |-> out]

\* self.output.write(buf): how many bytes of buf the stream took, or an I/O error
write(out, buf) ==
    CASE writer = "Vec" -> [err |-> FALSE, n |-> Len(buf), out |-> out \o buf]
      [] writer = "Full" -> [err |-> FALSE, n |-> 0, out |-> out]
      [] writer = "Broken" -> [err |-> TRUE, n |-> 0, out |-> out]

\* PutOutput that moves on to the next instruction before it returns the error
PutOutputAdvanceOnError(self) ==
    IF ~InBounds(self.tape, self.tape_pointer) THEN Done(self, "Panic")
    ELSE
      LET r == write(self.output, <<head_value(self)>>) IN
      IF r.err
      THEN Done([self EXCEPT !.instruction_pointer = self.instruction_pointer + 1],
                "ReadError")
      ELSE Advance([self EXCEPT !.output = r.out])

\* the count that write returns is dropped; its error converts through
\* #[from] std::io::Error, which only ReadError carries
PutOutput(self) ==
    IF ~InBounds(self.tape, self.tape_pointer) THEN Done(self, "Panic")
    ELSE
      LET r == write(self.output, <<head_value(self)>>) IN
      IF r.err THEN Done(self, "ReadError")
      ELSE Advance([self EXCEPT !.output = r.out])

\* LoopStart that lands on the matched LoopEnd instead of just past it
LoopStartNoAdvance(self) ==
    IF ~InBounds(self.tape, self.tape_pointer) THEN Done(self, "Panic")
    ELSE IF head_value(self) = 0
    THEN IF ~InBounds(jump_memo, self.instruction_pointer) THEN Done(self, "Panic")
         ELSE Done([self EXCEPT
                      !.instruction_pointer = At(jump_memo, self.instruction_pointer)],
                   "Ok")
    ELSE Advance(self)

\* LoopStart that skips one instruction too many after the matched LoopEnd
LoopStartPastEnd(self) ==
    IF ~InBounds(self.tape, self.tape_pointer) THEN Done(self, "Panic")
    ELSE IF head_value(self) = 0
    THEN IF ~InBounds(jump_memo, self.instruction_pointer) THEN Done(self, "Panic")
         ELSE Advance([self EXCEPT
                         !.instruction_pointer =
                             At(jump_memo, self.instruction_pointer) + 1])
    ELSE Advance(self)

LoopStart(self) ==
    IF ~InBounds(self.tape, self.tape_pointer) THEN Done(self, "Panic")
    ELSE IF head_value(self) = 0
    THEN IF ~InBounds(jump_memo, self.instruction_pointer) THEN Done(self, "Panic")
         ELSE Advance([self EXCEPT
                         !.instruction_pointer = At(jump_memo, self.instruction_pointer)])
    ELSE Advance(self)

\* LoopEnd that never goes back
LoopEndFallsThrough(self) ==
    IF ~InBounds(self.tape, self.tape_pointer) THEN Done(self, "Panic")
    ELSE Advance(self)

LoopEnd(self) ==
    IF ~InBounds(self.tape, self.tape_pointer) THEN Done(self, "Panic")
    ELSE IF head_value(self) # 0
    THEN IF ~InBounds(jump_memo, self.instruction_pointer) THEN Done(self, "Panic")
         ELSE Advance([self EXCEPT
                         !.instruction_pointer = At(jump_memo, self.instruction_pointer)])
    ELSE Advance(self)

\* self.instructions[self.instruction_pointer]; the caller checks the bounds
current_instruction(self) == At(instructions, self.instruction_pointer)

step(self) ==
    IF ~InBounds(instructions, self.instruction_pointer) THEN Done(self, "Panic")
    ELSE
      LET i == current_instruction(self) IN
      CASE i = "GoRight" -> GoRight(self)
        [] i = "GoLeft" -> GoLeft(self)
        [] i = "Increment" -> Increment(self)
        [] i = "Decrement" -> Decrement(self)
        [] i = "GetInput" -> GetInput(self)
        [] i = "PutOutput" -> PutOutput(self)
        [] i = "LoopStart" -> LoopStart(self)
        [] i = "LoopEnd" -> LoopEnd(self)

\* execute: while !self.is_end() { self.step()?; } Ok(()), with the number
\* of iterations; left marks a loop that outlasts the model's step bound
RECURSIVE ExecuteLoop(_, _, _)
ExecuteLoop(self, n, left) ==
    IF is_end(self) THEN [self |-> self, result |-> "Ok", n |-> n]
    ELSE IF left = 0 THEN [self |-> self, result |-> "Running", n |-> n]
    ELSE LET r == step(self) IN
         IF r.result # "Ok" THEN [self |-> r.self, result |-> r.result, n |-> n + 1]
         ELSE ExecuteLoop(r.self, n + 1, left - 1)

\* execute whose loop leaves the last instruction out
RECURSIVE ExecuteLoopShort(_, _, _)
ExecuteLoopShort(self, n, left) ==
    IF self.instruction_pointer + 1 >= Len(instructions)
    THEN [self |-> self, result |-> "Ok", n |-> n]
    ELSE IF left = 0 THEN [self |-> self, result |-> "Running", n |-> n]
    ELSE LET r == step(self) IN
         IF r.result # "Ok" THEN [self |-> r.self, result |-> r.result, n |-> n + 1]
         ELSE ExecuteLoopShort(r.self, n + 1, left - 1)

executeShort(self, left) == ExecuteLoopShort(self, 0, left)

\* execute that drops the error of a failed step and goes on with the next
\* instruction
RECURSIVE ExecuteLoopIgnoring(_, _, _)
ExecuteLoopIgnoring(self, n, left) ==
    IF is_end(self) THEN [self |-> self, result |-> "Ok", n |-> n]
    ELSE IF left = 0 THEN [self |-> self, result |-> "Running", n |-> n]
    ELSE LET r == step(self) IN
         IF r.result = "Panic" THEN [self |-> r.self, result |-> r.result, n |-> n + 1]
         ELSE IF r.result # "Ok"
         THEN ExecuteLoopIgnoring(
                  [r.self EXCEPT !.instruction_pointer = r.self.instruction_pointer + 1],
                  n + 1, left - 1)
         ELSE ExecuteLoopIgnoring(r.self, n + 1, left - 1)

executeIgnoringErrors(self, left) == ExecuteLoopIgnoring(self, 0, left)

execute(self, left) == ExecuteLoop(self, 0, left)

(***************************************************************************)
(* Runs of the machine.  Init is the state after a successful new on any   *)
(* source of at most MaxProg characters, with any input stream, either     *)
(* kind of stream end, any kind of output stream and either build.  What   *)
(* a program cannot observe is left at one value: the input stream of a    *)
(* program without ',', the output stream of a program without '.', the    *)
(* build of a program without '+' and '-'.                                 *)
(***************************************************************************)
Uses(src, cs) == \E k \in 1..Len(src) : src[k] \in cs

Init ==
    /\ source \in SeqsUpTo(Chars, MaxProg)
    /\ LET l == new(source) IN
         /\ l.result = "Ok"
         /\ new_result = l.result
         /\ instructions = l.instructions
         /\ jump_memo = l.jump_memo
         /\ loop_stack = l.loop_stack
    /\ scanned = Len(source)
    /\ tape = <<0>>
    /\ Fresh
    /\ input \in (IF Uses(source, {","}) THEN SeqsUpTo(ByteSample, MaxIn) ELSE {<<>>})
    /\ consumed = 0
    /\ input_end \in (IF Uses(source, {","}) THEN {"Eof", "Fault"} ELSE {"Eof"})
    /\ output = <<>>
    /\ writer \in (IF Uses(source, {"."}) THEN {"Vec", "Full", "Broken"} ELSE {"Vec"})
    /\ overflow_checks \in (IF Uses(source, {"+", "-"}) THEN BOOLEAN ELSE {FALSE})

programVars == <<source, scanned, loop_stack, new_result, instructions, jump_memo>>

envVars == <<input, input_end, writer, overflow_checks>>

Alive == new_result = "Ok" /\ step_result # "Panic" /\ execute_result = "NotCalled"

SetSelf(self) ==
    /\ instruction_pointer' = self.instruction_pointer
    /\ tape' = self.tape
    /\ tape_pointer' = self.tape_pointer
    /\ consumed' = self.consumed
    /\ output' = self.output

\* the owner of the machine calls step
Step ==
    /\ Alive
    /\ steps < MaxSteps
    /\ LET r == step(Self) IN
         /\ SetSelf(r.self)
         /\ step_result' = r.result
         /\ failed_steps' = IF r.result = "Ok" THEN failed_steps ELSE failed_steps + 1
    /\ steps' = steps + 1
    /\ UNCHANGED <<programVars, envVars, execute_result>>

\* the owner of the machine calls execute, which consumes the machine
Execute ==
    /\ Alive
    /\ LET r == execute(Self, MaxSteps - steps) IN
         /\ r.result # "Running"
         /\ SetSelf(r.self)
         /\ execute_result' = r.result
         /\ steps' = steps + r.n
         /\ failed_steps' = IF r.result = "Ok" THEN failed_steps ELSE failed_steps + 1
    /\ UNCHANGED <<programVars, envVars, step_result>>

Next == Step \/ Execute

Spec == Init /\ [][Next]_vars

(***************************************************************************)
(* Properties of the machine, checked under Spec.                          *)
(***************************************************************************)
\* this transition is one call of step by the owner, executing instruction i
StepCall(i) ==
    /\ Alive
    /\ steps' = steps + 1
    /\ execute_result' = "NotCalled"
    /\ InBounds(instructions, instruction_pointer)
    /\ current_instruction(Self) = i

\* C5: a step executing Increment sets the current cell to (v + 1) mod 256,
\* a step executing Decrement sets it to (v - 1) mod 256, and neither fails,
\* whatever the build.
C5_IncDecWrap ==
    [][/\ StepCall("Increment") =>
            /\ step_result' = "Ok"
            /\ tape' = SetAt(tape, tape_pointer, (head_value(Self) + 1) % U8)
       /\ StepCall("Decrement") =>
            /\ step_result' = "Ok"
            /\ tape' = SetAt(tape, tape_pointer, (head_value(Self) - 1) % U8)]_vars

\* C6: a step executing GoLeft on cell 0 returns SeekOverLeftmost and leaves
\* the tape as it was; on any other cell it succeeds and moves the tape
\* pointer down by exactly one.
C6_GoLeft ==
    [][StepCall("GoLeft") =>
          IF tape_pointer = 0
          THEN /\ step_result' = "SeekOverLeftmost"
               /\ tape' = tape
               /\ tape_pointer' = tape_pointer
          ELSE /\ step_result' = "Ok"
               /\ tape_pointer' = tape_pointer - 1
               /\ tape' = tape]_vars

\* GoLeft has failed on cell 0 of a tape that had grown and been written
C6_SeekFailed ==
    /\ step_result = "SeekOverLeftmost"
    /\ tape_pointer = 0
    /\ Len(tape) > 1
    /\ At(tape, 0) # 0

\* C7: the tape starts with one cell and never shrinks; a step appends one
\* zero cell exactly when it executes GoRight and moves the tape pointer to
\* the length of the tape, and every other step keeps the length.
C7_TapeGrowth ==
    /\ Len(tape) = 1
    /\ [][/\ Len(tape') >= Len(tape)
           /\ \A i \in Range(instructions) :
                 StepCall(i) =>
                    IF i = "GoRight" /\ tape_pointer + 1 = Len(tape)
                    THEN tape' = Append(tape, 0)
                    ELSE Len(tape') = Len(tape)]_vars

\* the tape has grown twice and the pointer has come back onto an old cell
C7_GrownAndBack ==
    /\ Len(tape) >= 3
    /\ tape_pointer + 1 < Len(tape)
    /\ execute_result = "NotCalled"
    /\ step_result = "Ok"

\* the machine as new returns it
Constructed == [instruction_pointer |-> 0, tape |-> <<0>>, tape_pointer |-> 0,
                consumed |-> 0, output |-> <<>>]

\* the owner has called step while is_end was false, no call has failed, and
\* is_end is true now
SteppedToEnd ==
    /\ execute_result = "NotCalled"
    /\ failed_steps = 0
    /\ is_end(Self)

\* C8: calling step while is_end is false, without a failure, ends in the
\* tape, tape pointer, consumed input and output that one call of execute
\* on the machine as constructed ends in.
C8_StepsEqualExecute ==
    SteppedToEnd =>
        LET r == execute(Constructed, MaxSteps) IN
        /\ r.result = "Ok"
        /\ r.n = steps
        /\ r.self.tape = tape
        /\ r.self.tape_pointer = tape_pointer
        /\ r.self.consumed = consumed
        /\ r.self.output = output

\* a run of at least four steps that read input and wrote output has ended
C8_SteppedThroughIO ==
    /\ SteppedToEnd
    /\ steps >= 4
    /\ consumed > 0
    /\ output # <<>>

\* C9: a step executing LoopStart at s moves the instruction pointer to
\* jump_memo[s] + 1 on a zero cell and to s + 1 otherwise; a step executing
\* LoopEnd at e moves it to jump_memo[e] + 1 on a nonzero cell and to e + 1
\* otherwise; neither fails nor changes the tape, the tape pointer, the
\* input or the output.
C9_LoopJumps ==
    [][/\ StepCall("LoopStart") =>
            /\ step_result' = "Ok"
            /\ instruction_pointer' =
                  IF head_value(Self) = 0
                  THEN At(jump_memo, instruction_pointer) + 1
                  ELSE instruction_pointer + 1
            /\ UNCHANGED <<tape, tape_pointer, input, consumed, output>>
       /\ StepCall("LoopEnd") =>
            /\ step_result' = "Ok"
            /\ instruction_pointer' =
                  IF head_value(Self) # 0
                  THEN At(jump_memo, instruction_pointer) + 1
                  ELSE instruction_pointer + 1
            /\ UNCHANGED <<tape, tape_pointer, input, consumed, output>>]_vars

\* a LoopEnd on a nonzero cell has sent the machine back into its loop: the
\* instruction pointer stands just past the matched LoopStart, after more
\* successful steps than a run without a backward jump takes to get there
C9_JumpedBack ==
    /\ execute_result = "NotCalled"
    /\ failed_steps = 0
    /\ head_value(Self) # 0
    /\ steps > instruction_pointer
    /\ \E e \in 0..(Len(instructions) - 1) :
          /\ At(instructions, e) = "LoopEnd"
          /\ instruction_pointer = At(jump_memo, e) + 1

\* C10: every successful step executing PutOutput appends exactly one byte,
\* the value of the current cell, to the output stream, also on a stream
\* whose write may take fewer bytes than it is offered.
C10_PutOutputAppends ==
    [][(StepCall("PutOutput") /\ step_result' = "Ok") =>
          output' = Append(output, head_value(Self))]_vars

\* C11: a step executing PutOutput on an output stream that reports an I/O
\* fault fails with WriteError, an error other than the ReadError of the
\* input stream.
C11_WriteFaultIsWriteError ==
    [][(StepCall("PutOutput") /\ writer = "Broken") =>
          step_result' = "WriteError"]_vars

\* the input stream has bytes left / is at its end and reports the end
InputLeft == consumed < Len(input)

InputExhausted == consumed >= Len(input) /\ input_end = "Eof"

RECURSIVE StepsFrom(_, _)
StepsFrom(self, k) ==
    IF k = 0 THEN Done(self, "Ok")
    ELSE LET before == StepsFrom(self, k - 1) IN
         IF before.result = "Ok" THEN step(before.self) ELSE before

\* this transition is a call of execute that returns
ExecuteCall == execute_result = "NotCalled" /\ execute_result' # "NotCalled"

\* C13: execute calls step for as long as the machine is not at its end and
\* no call has failed: it returns Ok only with the instruction pointer at or
\* past the instruction count, and after a failed step it returns that
\* step's error at once, with the output written before the failure in place.
C13_ExecuteLoop ==
    [][ExecuteCall =>
          LET n == steps' - steps
              last == StepsFrom(Self, n)
          IN
          /\ \A k \in 0..(n - 1) :
                /\ StepsFrom(Self, k).result = "Ok"
                /\ ~is_end(StepsFrom(Self, k).self)
          /\ execute_result' = last.result
          /\ Self' = last.self
          /\ execute_result' = "Ok" => is_end(Self')
          /\ execute_result' # "Ok" =>
                /\ n > 0
                /\ ~is_end(Self')
                /\ output' = StepsFrom(Self, n - 1).self.output]_vars

\* execute has stopped at a failed read, after it had written output, with
\* instructions left
C13_StoppedAtFailure ==
    /\ execute_result = "LackOfInput"
    /\ output # <<>>
    /\ instruction_pointer + 1 < Len(instructions)

\* C17: in every state of a constructed machine, whatever calls of step
\* succeeded or failed, the tape pointer is an index of the tape.
C17_TapePointerValid ==
    new_result = "Ok" => InBounds(tape, tape_pointer)

\* the pointer stands on the last cell of a tape that has grown, and a step
\* has failed on the way
C17_AtGrownEnd ==
    /\ failed_steps > 0
    /\ tape_pointer >= 1
    /\ tape_pointer + 1 = Len(tape)

\* C18: when step is called only while is_end is false, the instruction
\* pointer never exceeds the instruction count, so the instruction under it
\* and, on a loop instruction, its jump_memo entry are in bounds.
C18_InstructionPointerBounded ==
    /\ instruction_pointer <= Len(instructions)
    /\ (~is_end(Self) /\ current_instruction(Self) \in {"LoopStart", "LoopEnd"}) =>
          /\ InBounds(jump_memo, instruction_pointer)
          /\ At(jump_memo, instruction_pointer) + 1 <= Len(instructions)

\* a LoopStart on a zero cell has jumped over its loop to the end of the
\* program
C18_JumpedToEnd ==
    /\ failed_steps = 0
    /\ steps > 0
    /\ steps < instruction_pointer
    /\ instruction_pointer = Len(instructions)
    /\ At(instructions, instruction_pointer - 1) = "LoopEnd"

\* this transition is one call of step by the owner
AnyStepCall == Alive /\ steps' = steps + 1 /\ execute_result' = "NotCalled"

StepErrors == {"SeekOverLeftmost", "LackOfInput", "ReadError"}

\* C19: a step that returns an error leaves the instruction pointer, the
\* tape pointer, the tape, the consumed input and the output as they were;
\* the instruction pointer moves only in a successful step.
C19_FailedStepChangesNothing ==
    [][AnyStepCall =>
          /\ step_result' \in StepErrors =>
                UNCHANGED <<instruction_pointer, tape_pointer, tape, consumed, output>>
          /\ instruction_pointer' # instruction_pointer => step_result' = "Ok"]_vars

\* a write has failed after the tape had grown and been written
C19_WriteFailed ==
    /\ step_result = "ReadError"
    /\ writer = "Broken"
    /\ steps >= 3
    /\ tape # <<0>>

\* the cells of the tape other than the one under the pointer keep their value
OtherCellsKept ==
    \A k \in 0..(Len(tape) - 1) : k # tape_pointer => At(tape', k) = At(tape, k)

\* C20: a step changes no existing cell but the one under the tape pointer,
\* and that one only by Increment, Decrement or GetInput; the input is
\* consumed only by GetInput and the output extended only by PutOutput; the
\* instructions and jump_memo never change.
C20_StepFrame ==
    [][/\ UNCHANGED <<instructions, jump_memo>>
       /\ \A i \in Range(instructions) :
             StepCall(i) =>
                /\ OtherCellsKept
                /\ i \notin {"Increment", "Decrement", "GetInput"} =>
                      At(tape', tape_pointer) = At(tape, tape_pointer)
                /\ i # "GetInput" => consumed' = consumed
                /\ i # "PutOutput" => output' = output]_vars

\* two cells hold values a step stored, the second one read from the input
C20_TwoCellsWritten ==
    /\ execute_result = "NotCalled"
    /\ Len(tape) >= 2
    /\ At(tape, 0) # 0
    /\ At(tape, 1) # 0
    /\ consumed = 1

(***************************************************************************)
(* The programs of the repository's tests, run by execute on the streams   *)
(* of the tests: a reader over a byte slice, which reports its end, and a  *)
(* Vec<u8>, which takes every byte.  Here execute is followed through its  *)
(* while loop, one iteration per action, in either build.                  *)
(***************************************************************************)
\* test_echo
EchoSource ==
    <<",", "[", ".", ",", "]">>

\* test_reverse
ReverseSource ==
    <<">", ",", "[", ">", ",", "]", "<", "[", ".", "<", "]">>

\* test_sum_n
SumSource ==
    <<",", "[", "[", "-", ">", ">", "+", ">", "+", "<", "<", "<", "]", ">",
      ">", ">", "[", "-", "<", "<", "<", "+", ">", ">", ">", "]", "<", "[",
      "-", "<", "+", ">", "]", "<", "<", "-", "]", ">", ".">>

NonZeroSample == {1, 2, 255}

\* nonzero bytes followed by a zero byte
Sentinelled == {Append(b, 0) : b \in SeqsUpTo(NonZeroSample, MaxEcho)}

TestRuns ==
    ({EchoSource, ReverseSource} \X Sentinelled)
        \cup ({SumSource} \X {<<n>> : n \in 0..MaxN})

InitTests ==
    /\ \E t \in TestRuns : source = t[1] /\ input = t[2]
    /\ LET l == new(source) IN
         /\ l.result = "Ok"
         /\ new_result = l.result
         /\ instructions = l.instructions
         /\ jump_memo = l.jump_memo
         /\ loop_stack = l.loop_stack
    /\ scanned = Len(source)
    /\ tape = <<0>>
    /\ Fresh
    /\ consumed = 0
    /\ input_end = "Eof"
    /\ output = <<>>
    /\ writer = "Vec"
    /\ overflow_checks \in BOOLEAN

\* execute is entered
ExecuteBegin ==
    /\ Alive
    /\ steps = 0
    /\ execute_result' = "Running"
    /\ UNCHANGED <<programVars, envVars, instruction_pointer, tape, tape_pointer,
                   consumed, output, steps, failed_steps, step_result>>

\* one iteration of the while loop: self.step()?
ExecuteIteration ==
    /\ execute_result = "Running"
    /\ ~is_end(Self)
    /\ LET r == step(Self) IN
         /\ SetSelf(r.self)
         /\ step_result' = r.result
         /\ failed_steps' = IF r.result = "Ok" THEN failed_steps ELSE failed_steps + 1
         /\ execute_result' = IF r.result = "Ok" THEN "Running" ELSE r.result
    /\ steps' = steps + 1
    /\ UNCHANGED <<programVars, envVars>>

\* the loop is left: Ok(())
ExecuteReturn ==
    /\ execute_result = "Running"
    /\ is_end(Self)
    /\ execute_result' = "Ok"
    /\ UNCHANGED <<programVars, envVars, instruction_pointer, tape, tape_pointer,
                   consumed, output, steps, failed_steps, step_result>>

NextTests == ExecuteBegin \/ ExecuteIteration \/ ExecuteReturn

SpecTests == InitTests /\ [][NextTests]_vars

(***************************************************************************)
(* Properties of the test programs, checked under SpecTests.               *)
(***************************************************************************)
ExecuteReturned == execute_result \notin {"NotCalled", "Running"}

\* the bytes of the input before its closing zero
Payload == SubSeq(input, 1, Len(input) - 1)

Reverse(seq) == [k \in 1..Len(seq) |-> seq[Len(seq) + 1 - k]]

\* C14: on nonzero bytes followed by a zero byte the echo program ends
\* without an error (within 2 + 3k steps for k nonzero bytes, none of them
\* failing) and has written exactly the nonzero bytes, in input order.
C14_Echo ==
    source = EchoSource =>
        /\ steps <= 2 + 3 * Len(Payload)
        /\ failed_steps = 0
        /\ ExecuteReturned => (execute_result = "Ok" /\ output = Payload)

\* the echo program has returned after echoing three bytes, not all the same
C14_EchoedThree ==
    /\ source = EchoSource
    /\ execute_result = "Ok"
    /\ Len(output) >= 3
    /\ output[1] # output[2]

\* C15: on nonzero bytes followed by a zero byte the reversal program ends
\* without an error (within 5 + 6k steps for k nonzero bytes, none of them
\* failing, so never seeking left of cell 0) and has written exactly the
\* nonzero bytes, in reverse order.
C15_Reverse ==
    source = ReverseSource =>
        /\ steps <= 5 + 6 * Len(Payload)
        /\ failed_steps = 0
        /\ ExecuteReturned => (execute_result = "Ok" /\ output = Reverse(Payload))

\* the reversal program has returned after writing three bytes, the first
\* and the last of them different
C15_ReversedThree ==
    /\ source = ReverseSource
    /\ execute_result = "Ok"
    /\ Len(output) >= 3
    /\ output[1] # output[3]

\* C16: on one input byte n the sum-of-N program ends without an error and
\* has written the one byte n(n+1)/2 modulo 256.
C16_SumOfN ==
    (source = SumSource /\ ExecuteReturned) =>
        /\ execute_result = "Ok"
        /\ output = <<((input[1] * (input[1] + 1)) \div 2) % U8>>
====
